---- MODULE Spec2Model ----
(***************************************************************************)
(* UnifiedMCPManager (app/services/unified_mcp_manager.py): the per-tenant *)
(* connection manager for the QuickBooks and the global MCP servers.       *)
(*                                                                         *)
(* The manager runs on one asyncio event loop.  A coroutine runs until it  *)
(* suspends, so an action of the model is the code a task runs between two *)
(* suspension points; the suspension points are the wait for a held lock,  *)
(* the credential store, the open of a session and the exit of the         *)
(* AsyncExitStack.                                                         *)
(***************************************************************************)
EXTENDS Integers, Sequences, FiniteSets, TLC

\* ---------------------------------------------------------------- values
None == 0
Absent == -1
Raised == -2
NoRet == -3
Open == -4

Tenants == {"t1", "t2"}
ConnTypes == {"quickbooks", "global"}
CredTypes == {"quickbooks", "sheets"}
Tokens == {1, 2}
SheetsCreds == {1}
Tasks == {1, 2, 3}
Requests == {1, 2}
Handlers == {"chat", "stream", "webhook"}
Outcomes == {"ok", "error", "cancelled"}
DictIds == {0} \cup Tasks
LockIds == 1 .. 4
OpenOutcomes == {"ok", "timeout", "cancelled", "error"}

\* timedelta values of __init__, in seconds
FailedConnectionTtl == 30
MaxConnectionAge == 1800
CredsCacheTtl == 300

AllDeltas == {FailedConnectionTtl, FailedConnectionTtl + 1, CredsCacheTtl,
              CredsCacheTtl + 1, MaxConnectionAge, MaxConnectionAge + 1}

\* bound of the model: the calls of the manager plus the moves of the clock
MaxEvents == 3

\* the handles: None and the sessions, at most one for each event and the one
\* of InitRegistered
Handles == {None} \cup (1 .. MaxEvents + 1)

VARIABLES
    now,
    exit_stack, stacks, exit_stack_lock,
    tenant_connections, tenant_tokens, connection_created_at, failed_connections,
    locks, lock_holder, global_lock,
    quickbooks_creds_cache, sheets_creds_cache, creds_cache_timestamps,
    sessions,
    request_global_mcp, dicts,
    pc, tenant, op, calls, lock, creds, stack_ref, ret, ret_at, opened,
    events, cleanup_pc, last_failed_open,
    handler, hpc, built, cleared

regs == <<tenant_connections, connection_created_at, failed_connections>>
credcache == <<quickbooks_creds_cache, sheets_creds_cache, creds_cache_timestamps>>
ctxs == <<request_global_mcp, dicts>>
stackv == <<exit_stack, stacks, exit_stack_lock>>
lockv == <<locks, lock_holder, global_lock>>
mgr == <<stackv, regs, tenant_tokens, lockv, credcache, sessions>>
reqs == <<handler, hpc, built, cleared>>
locals == <<pc, op, calls, lock, creds, stack_ref, ret, ret_at, opened>>
vars == <<now, mgr, ctxs, locals, tenant, reqs, events, cleanup_pc, last_failed_open>>

EmptyDict == [t \in Tenants |-> None]

\* The manager as __init__ leaves it, and three tasks about to call it: tasks
\* 1 and 2 are two of the tasks asyncio.gather starts for one request
\* (create_triage_agent, create_sales_agent), task 3 belongs to another
\* request, of the same tenant or of another one.  Each task runs in its own
\* copy of the context of its request.
Init ==
    /\ now = 0
    /\ exit_stack = None /\ stacks = 0 /\ exit_stack_lock = None
    /\ tenant_connections = [t \in Tenants |-> [c \in ConnTypes |-> None]]
    /\ tenant_tokens = [t \in Tenants |-> None]
    /\ connection_created_at = [t \in Tenants |-> [c \in ConnTypes |-> Absent]]
    /\ failed_connections = [t \in Tenants |-> [c \in ConnTypes |-> Absent]]
    /\ locks = [t \in Tenants |-> None]
    /\ lock_holder = [l \in LockIds |-> None]
    /\ global_lock = None
    /\ quickbooks_creds_cache = [t \in Tenants |-> Absent]
    /\ sheets_creds_cache = [t \in Tenants |-> Absent]
    /\ creds_cache_timestamps = [t \in Tenants |-> [c \in CredTypes |-> Absent]]
    /\ sessions = << >>
    /\ request_global_mcp = [k \in Tasks |-> 0]
    /\ dicts = [d \in DictIds |-> EmptyDict]
    /\ pc = [k \in Tasks |-> "idle"]
    /\ \E t \in Tenants : tenant = [k \in Tasks |-> IF k = 3 THEN t ELSE "t1"]
    /\ op = [k \in Tasks |-> "none"]
    /\ calls = [k \in Tasks |-> 0]
    /\ lock = [k \in Tasks |-> None]
    /\ creds = [k \in Tasks |-> None]
    /\ stack_ref = [k \in Tasks |-> None]
    /\ ret = [k \in Tasks |-> NoRet]
    /\ ret_at = [k \in Tasks |-> Absent]
    /\ opened = [k \in Tasks |-> FALSE]
    /\ events = 0
    /\ cleanup_pc = "idle"
    /\ last_failed_open = [t \in Tenants |-> [c \in ConnTypes |-> Absent]]
    /\ handler = [r \in Requests |-> "none"]
    /\ hpc = [r \in Requests |-> "idle"]
    /\ built = [r \in Requests |-> FALSE]
    /\ cleared = [r \in Requests |-> 0]

RequestOf(k) == IF k = 3 THEN "B" ELSE "A"

\* ------------------------------------------------------------ the registry
\* The three dicts that _invalidate_connection pops together.
Registry == [c |-> tenant_connections, a |-> connection_created_at, f |-> failed_connections]

Commit(R) ==
    /\ tenant_connections' = R.c
    /\ connection_created_at' = R.a
    /\ failed_connections' = R.f

\* variant: a manager that finds every connection stale
IsConnectionStale_Always(R, t, ct) == TRUE

\* variant: a connection is stale from the age of 30 minutes on
IsConnectionStale_AtAge(R, t, ct) ==
    IF R.a[t][ct] = Absent THEN TRUE ELSE now - R.a[t][ct] >= MaxConnectionAge

IsConnectionStale(R, t, ct) ==
    IF R.a[t][ct] = Absent THEN TRUE ELSE now - R.a[t][ct] > MaxConnectionAge

\* variant: the timestamps are popped, the handle is not
InvalidateConnection_KeepHandle(R, t, ct) ==
    [c |-> R.c,
     a |-> [R.a EXCEPT ![t][ct] = Absent],
     f |-> [R.f EXCEPT ![t][ct] = Absent]]

\* variant: the failure record is kept
InvalidateConnection_KeepFailure(R, t, ct) ==
    [c |-> [R.c EXCEPT ![t][ct] = None],
     a |-> [R.a EXCEPT ![t][ct] = Absent],
     f |-> R.f]

InvalidateConnection(R, t, ct) ==
    [c |-> [R.c EXCEPT ![t][ct] = None],
     a |-> [R.a EXCEPT ![t][ct] = Absent],
     f |-> [R.f EXCEPT ![t][ct] = Absent]]

\* variant: the backoff of one integration looks at the failure records of
\* both
IsFailureExpired_AnyIntegration(R, t, ct) ==
    \A c \in ConnTypes :
        IF R.f[t][c] = Absent THEN TRUE ELSE now - R.f[t][c] > FailedConnectionTtl

\* variant: every failure record counts as expired
IsFailureExpired_Always(R, t, ct) == TRUE

IsFailureExpired(R, t, ct) ==
    IF R.f[t][ct] = Absent THEN TRUE ELSE now - R.f[t][ct] > FailedConnectionTtl

\* variant: the failure is not recorded
MarkConnectionFailed_Nothing(R, t, ct) == R

MarkConnectionFailed(R, t, ct) == [R EXCEPT !.f[t][ct] = now]

\* variant: cached credentials are stale from the age of 5 minutes on
IsCredsCacheStale_AtAge(t, ct) ==
    IF creds_cache_timestamps[t][ct] = Absent THEN TRUE
    ELSE now - creds_cache_timestamps[t][ct] >= CredsCacheTtl

IsCredsCacheStale(t, ct) ==
    IF creds_cache_timestamps[t][ct] = Absent THEN TRUE
    ELSE now - creds_cache_timestamps[t][ct] > CredsCacheTtl

\* variant: a stack is created at every call, as without _exit_stack_lock
\* and the test of _exit_stack
EnsureExitStack_Always == [exit_stack |-> stacks + 1, stacks |-> stacks + 1]

\* _ensure_exit_stack: under _exit_stack_lock, create the stack when there is
\* none.  __aenter__ of an AsyncExitStack does not suspend, so the lock is
\* taken and released within one step of the loop.
EnsureExitStack ==
    IF exit_stack = None
    THEN [exit_stack |-> stacks + 1, stacks |-> stacks + 1]
    ELSE [exit_stack |-> exit_stack, stacks |-> stacks]

\* variant: removing a handle also closes its session
MarkRemoved_Closing(ss, h, why) ==
    IF h = None THEN ss ELSE [ss EXCEPT ![h].removed_by = why, ![h].open = FALSE]

\* why a handle left _tenant_connections (kept with the session for the properties)
MarkRemoved(ss, h, why) ==
    IF h = None THEN ss ELSE [ss EXCEPT ![h].removed_by = why]

\* ------------------------------------------------------------------- locks
\* A lock made for tenant t: lock 1 or 2 before cleanup() has cleared _locks,
\* lock 3 or 4 after it.
NewLock(t) == (IF t = "t1" THEN 1 ELSE 2) + (IF cleanup_pc = "done" THEN 2 ELSE 0)

\* variant: one lock for all the tenants
GetTenantLock_Shared(t) ==
    IF locks[t] = None
    THEN [id |-> 1, locks |-> [locks EXCEPT ![t] = 1]]
    ELSE [id |-> locks[t], locks |-> locks]

\* _get_tenant_lock: under _global_lock, the tenant's lock, made when missing.
\* Nothing suspends under _global_lock, so it is taken and released within
\* one step of the loop.
GetTenantLock(t) ==
    IF locks[t] = None
    THEN [id |-> NewLock(t), locks |-> [locks EXCEPT ![t] = NewLock(t)]]
    ELSE [id |-> locks[t], locks |-> locks]

\* variant: the lock is not held across the suspension
Suspend_NoHold(k, l, p) ==
    /\ lock' = [lock EXCEPT ![k] = l]
    /\ pc' = [pc EXCEPT ![k] = p]
    /\ UNCHANGED <<lock_holder, ret, ret_at>>

\* The call of task k goes on under lock l, which it holds: it suspends at pc p.
Suspend(k, l, p) ==
    /\ lock_holder' = [lock_holder EXCEPT ![l] = k]
    /\ lock' = [lock EXCEPT ![k] = l]
    /\ pc' = [pc EXCEPT ![k] = p]
    /\ UNCHANGED <<ret, ret_at>>

\* variant: the call returns without releasing the lock
Return_HoldingLock(k, l, v) ==
    /\ lock' = [lock EXCEPT ![k] = None]
    /\ pc' = [pc EXCEPT ![k] = "idle"]
    /\ ret' = [ret EXCEPT ![k] = v]
    /\ ret_at' = [ret_at EXCEPT ![k] = now]
    /\ UNCHANGED lock_holder

\* The call of task k leaves "async with lock" (lock l) with the value v: a
\* handle, None, or Raised for an exception that propagates.  ret_at keeps
\* the time of the return for the properties.
Return(k, l, v) ==
    /\ lock_holder' = [lock_holder EXCEPT ![l] = None]
    /\ lock' = [lock EXCEPT ![k] = None]
    /\ pc' = [pc EXCEPT ![k] = "idle"]
    /\ ret' = [ret EXCEPT ![k] = v]
    /\ ret_at' = [ret_at EXCEPT ![k] = now]

\* "async with lock" finds the lock held: the task waits for it at pc p.
WaitLock(k, l, p) ==
    /\ lock' = [lock EXCEPT ![k] = l]
    /\ pc' = [pc EXCEPT ![k] = p]
    /\ UNCHANGED <<lock_holder, ret, ret_at>>

\* Task 2 is started after task 1 (asyncio.gather starts its tasks in order).
CanCall(k) ==
    /\ pc[k] = "idle"
    /\ events < MaxEvents
    /\ (k = 2 => op[1] # "none")

\* calls counts the calls a task has begun (kept for the properties)
BeginCall(k, name) ==
    /\ events' = events + 1
    /\ op' = [op EXCEPT ![k] = name]
    /\ calls' = [calls EXCEPT ![k] = calls[k] + 1]

\* where a call is suspended in asyncio.wait_for, and where it waits for its lock
OpenPcs == {"qb_open", "g_open"}
\* where a call is suspended inside "async with lock"
InLockPcs == {"qb_fetch", "qb_open", "g_fetch", "g_open"}
\* the tasks that are inside "async with lock" for tenant t
InLock(t) == {j \in Tasks : tenant[j] = t /\ pc[j] \in InLockPcs}
LockWaitPcs == {"qb_lockwait", "g_lockwait", "inv_lockwait"}

\* variant: "async with lock" never finds the lock held
Locked_Never(l) == FALSE

\* Lock.acquire takes the lock at once only when it is not held and no task
\* waits for it: a task is inside "async with lock", or the lock has been
\* released to a waiting task that has not run yet.
Locked(l) ==
    \/ lock_holder[l] # None
    \/ \E j \in Tasks : pc[j] \in LockWaitPcs /\ lock[j] = l

\* What a step of a call can change besides its task's pc, lock and ret.
Quiet(k) ==
    /\ opened' = [opened EXCEPT ![k] = FALSE]
    /\ UNCHANGED <<regs, sessions, exit_stack, stacks, stack_ref>>

\* STEP 5 / STEP 6: _ensure_exit_stack, then the open starts on that stack
\* and the task suspends in asyncio.wait_for at pc p, under its lock l.
StartOpen(k, l, p) ==
    /\ exit_stack_lock = None
    /\ exit_stack' = EnsureExitStack.exit_stack
    /\ stacks' = EnsureExitStack.stacks
    /\ stack_ref' = [stack_ref EXCEPT ![k] = EnsureExitStack.exit_stack]
    /\ opened' = [opened EXCEPT ![k] = TRUE]
    /\ Suspend(k, l, p)

\* str(tenant_id)
Str(t) == <<"str", t>>

\* The headers of an open.  The value of Authorization is f"Bearer {token}";
\* creds[k] stands for the whole credentials of the tenant, so it is the
\* access token and the realm id of QuickBooks and the refresh token of
\* Google Sheets (the workbook and worksheet headers, one per field the
\* credentials have, follow the refresh token).
QuickbooksHeaders(k) ==
    ("jsonrpc" :> "2.0")
    @@ ("Content-Type" :> "application/json, text/event-stream")
    @@ ("Authorization" :> <<"Bearer", creds[k]>>)
    @@ ("x-quickbooks-realm-id" :> <<"realm", creds[k]>>)

\* variant: the headers of the global server without the tenant
GlobalHeaders_NoTenant(k) ==
    ("jsonrpc" :> "2.0")
    @@ ("Content-Type" :> "application/json, text/event-stream")

GlobalHeaders(k) ==
    ("jsonrpc" :> "2.0")
    @@ ("Content-Type" :> "application/json, text/event-stream")
    @@ ("x-tenant-id" :> Str(tenant[k]))
    @@ (IF creds[k] # None THEN "x-user-refresh-token" :> <<"refresh", creds[k]>>
        ELSE << >>)

NewSession(k, ct) ==
    [tenant |-> tenant[k], kind |-> ct, token |-> creds[k], stack |-> stack_ref[k],
     task |-> k, open |-> TRUE, at |-> now, removed_by |-> "no", in_lock |-> {},
     raised |-> FALSE,
     headers |-> IF ct = "quickbooks" THEN QuickbooksHeaders(k) ELSE GlobalHeaders(k)]

\* ------------------------------------------------- the request-scoped cache
\* The ContextVar _request_global_mcp: request_global_mcp[k] is the dict the
\* variable holds in task k's context, dicts[d] the content of dict d.  Dict 0
\* is the default={} object, which every context holds until it sets the
\* variable; a dict made in task k's context is dict k.
FreshDict(k) == k

RequestCache(k) == dicts[request_global_mcp[k]]

\* variant: the handle is written into whatever dict the context holds
SetRequestCache_InPlace(k, h) ==
    [ctx |-> request_global_mcp,
     dicts |-> [dicts EXCEPT ![request_global_mcp[k]][tenant[k]] = h]]

\* lines 491-495: the dict of the context, or a new one set in the context
\* when that dict is empty, gets the handle
SetRequestCache(k, h) ==
    IF RequestCache(k) = EmptyDict
    THEN [ctx |-> [request_global_mcp EXCEPT ![k] = FreshDict(k)],
          dicts |-> [dicts EXCEPT ![FreshDict(k)] = [EmptyDict EXCEPT ![tenant[k]] = h]]]
    ELSE [ctx |-> request_global_mcp,
          dicts |-> [dicts EXCEPT ![request_global_mcp[k]][tenant[k]] = h]]

\* clear_request_mcp_cache: _request_global_mcp.set({}).  In a context whose
\* dict is empty the call only replaces one empty dict by another, which no
\* later step can tell apart, so that case is left out.
ClearRequestMcpCache(k) ==
    /\ pc[k] = "idle"
    /\ RequestCache(k) # EmptyDict
    /\ request_global_mcp' = [request_global_mcp EXCEPT ![k] = FreshDict(k)]
    /\ dicts' = [dicts EXCEPT ![FreshDict(k)] = EmptyDict]
    /\ UNCHANGED <<now, mgr, locals, tenant, reqs, events, cleanup_pc, last_failed_open>>

\* ---------------------------------------------------------------- the clock
\* datetime.now(UTC) moves on between two steps of the loop.  The code only
\* compares the age of a recorded time with its time to live, so the clock is
\* moved by the time to live of a time that is recorded, or by one second more.
Deltas ==
    (IF \E t \in Tenants, c \in ConnTypes : failed_connections[t][c] # Absent
     THEN {FailedConnectionTtl, FailedConnectionTtl + 1} ELSE {})
    \cup (IF \E t \in Tenants, c \in CredTypes : creds_cache_timestamps[t][c] # Absent
          THEN {CredsCacheTtl, CredsCacheTtl + 1} ELSE {})
    \cup (IF \E t \in Tenants, c \in ConnTypes : connection_created_at[t][c] # Absent
          THEN {MaxConnectionAge, MaxConnectionAge + 1} ELSE {})

Tick(d) ==
    /\ d \in Deltas
    /\ events < MaxEvents
    /\ now' = now + d
    /\ events' = events + 1
    /\ UNCHANGED <<mgr, ctxs, locals, tenant, reqs, cleanup_pc, last_failed_open>>

\* ------------------------------------------------------ get_quickbooks_mcp
\* variant: a changed token is not noticed
TokenChanged_Never(t, tok) == FALSE

\* STEP 2: a token is tracked for the tenant and differs from the current one
TokenChanged(t, tok) == tenant_tokens[t] # None /\ tenant_tokens[t] # tok

\* STEP 2 to STEP 4.5 for the resolved token tok: the registry they leave,
\* why a handle left it, and the result (a handle, None, or Open: go on to
\* STEP 5)
QBSteps(t, tok) ==
    LET changed == TokenChanged(t, tok)
        R1 == IF changed THEN InvalidateConnection(Registry, t, "quickbooks") ELSE Registry
        R2 == IF IsConnectionStale(R1, t, "quickbooks")
              THEN InvalidateConnection(R1, t, "quickbooks") ELSE R1
    IN [R |-> R2,
        why |-> IF changed THEN "token" ELSE "stale",
        result |-> IF R2.c[t]["quickbooks"] # None THEN R2.c[t]["quickbooks"]
                   ELSE IF ~IsFailureExpired(R2, t, "quickbooks") THEN None
                   ELSE Open]

\* variant: the call goes on without credentials
HasCreds_Always(tok) == TRUE

\* "if not creds: return None"
HasCreds(tok) == tok # None

\* the credentials are resolved to tok
QBResolved(k, l, tok) ==
    LET t == tenant[k]
        S == QBSteps(t, tok)
    IN
    /\ creds' = [creds EXCEPT ![k] = tok]
    /\ IF ~HasCreds(tok)
       THEN Return(k, l, None) /\ Quiet(k)
       ELSE /\ Commit(S.R)
            /\ sessions' = IF S.R.c[t]["quickbooks"] = None
                           THEN MarkRemoved(sessions, tenant_connections[t]["quickbooks"], S.why)
                           ELSE sessions
            /\ IF S.result = Open
               THEN StartOpen(k, l, "qb_open")
               ELSE /\ Return(k, l, S.result)
                    /\ opened' = [opened EXCEPT ![k] = FALSE]
                    /\ UNCHANGED <<exit_stack, stacks, stack_ref>>

\* STEP 1 under the lock l: the cached credentials, or the store
QBLocked(k, l) ==
    IF quickbooks_creds_cache[tenant[k]] # Absent
       /\ ~IsCredsCacheStale(tenant[k], "quickbooks")
    THEN QBResolved(k, l, quickbooks_creds_cache[tenant[k]])
    ELSE /\ Suspend(k, l, "qb_fetch")
         /\ creds' = [creds EXCEPT ![k] = None]
         /\ Quiet(k)

GetQuickbooksMcp(k) ==
    /\ CanCall(k)
    /\ BeginCall(k, "quickbooks")
    /\ global_lock = None
    /\ LET g == GetTenantLock(tenant[k]) IN
       /\ locks' = g.locks
       /\ IF Locked(g.id)
          THEN /\ WaitLock(k, g.id, "qb_lockwait")
               /\ creds' = [creds EXCEPT ![k] = None]
               /\ Quiet(k)
          ELSE QBLocked(k, g.id)
    /\ UNCHANGED <<now, exit_stack_lock, global_lock, tenant_tokens, credcache, ctxs,
                   tenant, reqs, cleanup_pc, last_failed_open>>

QBLockAcquired(k) ==
    /\ pc[k] = "qb_lockwait"
    /\ lock_holder[lock[k]] = None
    /\ QBLocked(k, lock[k])
    /\ UNCHANGED <<now, exit_stack_lock, locks, global_lock, tenant_tokens, credcache,
                   ctxs, op, calls, tenant, reqs, events, cleanup_pc, last_failed_open>>

\* The access tokens of a tenant are numbered in the order the store first
\* returns them.
SeenTokens(t) ==
    {tenant_tokens[t], quickbooks_creds_cache[t]}
    \cup {sessions[h].token : h \in {x \in DOMAIN sessions : sessions[x].tenant = t
                                                           /\ sessions[x].kind = "quickbooks"}}

\* get_quickbooks_credentials returns v, or raises (v = Raised)
QBFetched(k, v) ==
    /\ pc[k] = "qb_fetch"
    /\ v \in Tokens => \A w \in Tokens : w < v => w \in SeenTokens(tenant[k])
    /\ IF v = Raised
       THEN /\ Return(k, lock[k], Raised)
            /\ Quiet(k)
            /\ UNCHANGED <<creds, quickbooks_creds_cache, creds_cache_timestamps>>
       ELSE /\ IF v # None
               THEN /\ quickbooks_creds_cache' =
                          [quickbooks_creds_cache EXCEPT ![tenant[k]] = v]
                    /\ creds_cache_timestamps' =
                          [creds_cache_timestamps EXCEPT ![tenant[k]]["quickbooks"] = now]
               ELSE UNCHANGED <<quickbooks_creds_cache, creds_cache_timestamps>>
            /\ QBResolved(k, lock[k], v)
    /\ UNCHANGED <<now, exit_stack_lock, locks, global_lock, tenant_tokens,
                   sheets_creds_cache, ctxs, op, calls, tenant, reqs, events, cleanup_pc,
                   last_failed_open>>

\* asyncio.wait_for(self._exit_stack.enter_async_context(...)) ends with o
QBOpened(k, o) ==
    /\ pc[k] = "qb_open"
    /\ LET t == tenant[k]
           h == Len(sessions) + 1
       IN
       IF o = "ok"
       THEN /\ sessions' = Append(
                   MarkRemoved(sessions, tenant_connections[t]["quickbooks"], "replaced"),
                   NewSession(k, "quickbooks"))
            /\ tenant_connections' = [tenant_connections EXCEPT ![t]["quickbooks"] = h]
            /\ tenant_tokens' = [tenant_tokens EXCEPT ![t] = creds[k]]
            /\ connection_created_at' =
                   [connection_created_at EXCEPT ![t]["quickbooks"] = now]
            /\ Return(k, lock[k], h)
            /\ UNCHANGED <<failed_connections, last_failed_open>>
       ELSE /\ Commit(MarkConnectionFailed(Registry, t, "quickbooks"))
            /\ last_failed_open' = [last_failed_open EXCEPT ![t]["quickbooks"] = now]
            /\ Return(k, lock[k], None)
            /\ UNCHANGED <<sessions, tenant_tokens>>
    /\ stack_ref' = [stack_ref EXCEPT ![k] = None]
    /\ UNCHANGED <<now, stackv, locks, global_lock, credcache, ctxs, op, calls, creds, opened,
                   tenant, reqs, events, cleanup_pc>>

\* ------------------------------------------------------------ get_global_mcp
\* STEP 3 to STEP 6 once the Google Sheets credentials are sc (None when the
\* tenant has none: the headers then carry only x-tenant-id)
GResolved(k, l, sc) ==
    /\ creds' = [creds EXCEPT ![k] = sc]
    /\ UNCHANGED <<regs, sessions>>
    /\ IF ~IsFailureExpired(Registry, tenant[k], "global")
       THEN /\ Return(k, l, None)
            /\ opened' = [opened EXCEPT ![k] = FALSE]
            /\ UNCHANGED <<exit_stack, stacks, stack_ref>>
       ELSE StartOpen(k, l, "g_open")

\* under the lock l: the second look at the request cache, then
\* _get_google_sheets_credentials, from its cache or from the database
GLocked(k, l) ==
    IF RequestCache(k)[tenant[k]] # None
    THEN /\ Return(k, l, RequestCache(k)[tenant[k]])
         /\ Quiet(k)
         /\ UNCHANGED creds
    ELSE IF sheets_creds_cache[tenant[k]] # Absent /\ ~IsCredsCacheStale(tenant[k], "sheets")
    THEN GResolved(k, l, sheets_creds_cache[tenant[k]])
    ELSE /\ Suspend(k, l, "g_fetch")
         /\ creds' = [creds EXCEPT ![k] = None]
         /\ Quiet(k)

GetGlobalMcp(k) ==
    /\ CanCall(k)
    /\ BeginCall(k, "global")
    /\ IF RequestCache(k)[tenant[k]] # None
       THEN /\ ret' = [ret EXCEPT ![k] = RequestCache(k)[tenant[k]]]
            /\ ret_at' = [ret_at EXCEPT ![k] = now]
            /\ Quiet(k)
            /\ UNCHANGED <<locks, lock_holder, lock, pc, creds>>
       ELSE /\ global_lock = None
            /\ LET g == GetTenantLock(tenant[k]) IN
               /\ locks' = g.locks
               /\ IF Locked(g.id)
                  THEN /\ WaitLock(k, g.id, "g_lockwait")
                       /\ creds' = [creds EXCEPT ![k] = None]
                       /\ Quiet(k)
                  ELSE GLocked(k, g.id)
    /\ UNCHANGED <<now, exit_stack_lock, global_lock, tenant_tokens, credcache, ctxs,
                   tenant, reqs, cleanup_pc, last_failed_open>>

GLockAcquired(k) ==
    /\ pc[k] = "g_lockwait"
    /\ lock_holder[lock[k]] = None
    /\ GLocked(k, lock[k])
    /\ UNCHANGED <<now, exit_stack_lock, locks, global_lock, tenant_tokens, credcache,
                   ctxs, op, calls, tenant, reqs, events, cleanup_pc, last_failed_open>>

\* db.execute returns the tenant's active connection (v), none (v = None, which
\* is cached too), or raises (v = Raised)
GFetched(k, v) ==
    /\ pc[k] = "g_fetch"
    /\ IF v = Raised
       THEN /\ Return(k, lock[k], Raised)
            /\ Quiet(k)
            /\ UNCHANGED <<creds, sheets_creds_cache, creds_cache_timestamps>>
       ELSE /\ sheets_creds_cache' = [sheets_creds_cache EXCEPT ![tenant[k]] = v]
            /\ creds_cache_timestamps' =
                   [creds_cache_timestamps EXCEPT ![tenant[k]]["sheets"] = now]
            /\ GResolved(k, lock[k], v)
    /\ UNCHANGED <<now, exit_stack_lock, locks, global_lock, tenant_tokens,
                   quickbooks_creds_cache, ctxs, op, calls, tenant, reqs, events, cleanup_pc,
                   last_failed_open>>

GOpened(k, o) ==
    /\ pc[k] = "g_open"
    /\ IF o = "ok"
       THEN /\ sessions' = Append(sessions, NewSession(k, "global"))
            /\ request_global_mcp' = SetRequestCache(k, Len(sessions) + 1).ctx
            /\ dicts' = SetRequestCache(k, Len(sessions) + 1).dicts
            /\ Return(k, lock[k], Len(sessions) + 1)
            /\ UNCHANGED <<regs, last_failed_open>>
       ELSE /\ Commit(MarkConnectionFailed(Registry, tenant[k], "global"))
            /\ last_failed_open' = [last_failed_open EXCEPT ![tenant[k]]["global"] = now]
            /\ Return(k, lock[k], None)
            /\ UNCHANGED <<sessions, ctxs>>
    /\ stack_ref' = [stack_ref EXCEPT ![k] = None]
    /\ UNCHANGED <<now, stackv, tenant_tokens, locks, global_lock, credcache, op, calls, creds,
                   opened, tenant, reqs, events, cleanup_pc>>

\* --------------------------------------------------- handle_connection_error
\* Called by the request handler (chat.py) when the agent run raised.  It
\* takes no lock and does not suspend; both branches of the isinstance test
\* call _invalidate_connection.  With nothing recorded for (t, ct) the call
\* changes nothing, and that case is left out.  in_lock keeps, with the
\* session, the tasks that were inside the tenant's lock when its handle was
\* removed (for the properties).  e is the handle whose tool call raised the
\* error, a session of (t, ct) that the reporting request holds (None when
\* no session of (t, ct) was ever opened and the error only names the
\* server); raised keeps with the session that it has raised an error (for
\* the properties).  The manager never looks at e.
Raising(t, ct) ==
    LET S == {h \in DOMAIN sessions : sessions[h].tenant = t /\ sessions[h].kind = ct}
    IN IF S = {} THEN {None} ELSE S

HandleConnectionError(t, ct, closed, e) ==
    /\ events < MaxEvents
    /\ e \in Raising(t, ct)
    /\ \/ tenant_connections[t][ct] # None
       \/ connection_created_at[t][ct] # Absent
       \/ failed_connections[t][ct] # Absent
    /\ events' = events + 1
    /\ Commit(IF closed THEN InvalidateConnection(Registry, t, ct)
              ELSE InvalidateConnection(Registry, t, ct))
    /\ sessions' = LET h == tenant_connections[t][ct]
                       ss == IF e = None THEN sessions
                             ELSE [sessions EXCEPT ![e].raised = TRUE]
                   IN
                   IF h = None THEN ss
                   ELSE [MarkRemoved(ss, h, "error") EXCEPT ![h].in_lock = InLock(t)]
    /\ last_failed_open' = [last_failed_open EXCEPT ![t][ct] = Absent]
    /\ UNCHANGED <<now, stackv, tenant_tokens, lockv, credcache, ctxs, locals, tenant, reqs,
                   cleanup_pc>>

\* ---------------------------------------------------------- invalidate_tenant
InvBody(k, l) ==
    LET t == tenant[k] IN
    /\ tenant_connections' = [tenant_connections EXCEPT ![t] = [c \in ConnTypes |-> None]]
    /\ tenant_tokens' = [tenant_tokens EXCEPT ![t] = None]
    /\ connection_created_at' =
           [connection_created_at EXCEPT ![t] = [c \in ConnTypes |-> Absent]]
    /\ failed_connections' = [failed_connections EXCEPT ![t] = [c \in ConnTypes |-> Absent]]
    /\ quickbooks_creds_cache' = [quickbooks_creds_cache EXCEPT ![t] = Absent]
    /\ sheets_creds_cache' = [sheets_creds_cache EXCEPT ![t] = Absent]
    /\ creds_cache_timestamps' =
           [creds_cache_timestamps EXCEPT ![t] = [c \in CredTypes |-> Absent]]
    /\ sessions' = MarkRemoved(MarkRemoved(sessions, tenant_connections[t]["quickbooks"],
                                           "tenant"),
                               tenant_connections[t]["global"], "tenant")
    /\ last_failed_open' = [last_failed_open EXCEPT ![t] = [c \in ConnTypes |-> Absent]]
    /\ Return(k, l, None)

\* invalidate_tenant has no caller in the repository; here the task of the
\* second request calls it.
InvalidateTenant(k) ==
    /\ k = 3
    /\ CanCall(k)
    /\ BeginCall(k, "invalidate")
    /\ global_lock = None
    /\ LET g == GetTenantLock(tenant[k]) IN
       /\ locks' = g.locks
       /\ IF Locked(g.id)
          THEN /\ WaitLock(k, g.id, "inv_lockwait")
               /\ UNCHANGED <<regs, tenant_tokens, credcache, sessions, last_failed_open>>
          ELSE InvBody(k, g.id)
    /\ UNCHANGED <<now, stackv, global_lock, ctxs, creds, stack_ref, opened, tenant, reqs,
                   cleanup_pc>>

InvLockAcquired(k) ==
    /\ pc[k] = "inv_lockwait"
    /\ lock_holder[lock[k]] = None
    /\ InvBody(k, lock[k])
    /\ UNCHANGED <<now, stackv, locks, global_lock, ctxs, op, calls, creds, stack_ref, opened,
                   tenant, reqs, events, cleanup_pc>>

\* -------------------------------------------------------------------- cleanup
\* cleanup() is called once, by the lifespan handler at shutdown (main.py).
\* The finally block: the registry of handles, the tokens and the locks are
\* cleared and the stack is dropped; the creation times, the failure records
\* and the credential caches stay.
CleanupFinally(ss) ==
    /\ sessions' = [h \in DOMAIN ss |->
                      IF \E t \in Tenants, c \in ConnTypes : tenant_connections[t][c] = h
                      THEN [ss[h] EXCEPT !.removed_by = "cleanup"] ELSE ss[h]]
    /\ tenant_connections' = [t \in Tenants |-> [c \in ConnTypes |-> None]]
    /\ tenant_tokens' = [t \in Tenants |-> None]
    /\ locks' = [t \in Tenants |-> None]
    /\ exit_stack' = None
    /\ cleanup_pc' = "done"

\* without a stack, or with no session entered on it, __aexit__ has nothing to
\* wait for; otherwise the task suspends in __aexit__, which closes the
\* sessions
CleanupBegin ==
    /\ cleanup_pc = "idle"
    /\ events < MaxEvents
    /\ events' = events + 1
    /\ IF exit_stack = None \/ \A h \in DOMAIN sessions : sessions[h].stack # exit_stack
       THEN CleanupFinally(sessions)
       ELSE /\ cleanup_pc' = "exiting"
            /\ UNCHANGED <<sessions, tenant_connections, tenant_tokens, locks, exit_stack>>
    /\ UNCHANGED <<now, stacks, exit_stack_lock, connection_created_at, failed_connections,
                   lock_holder, global_lock, credcache, ctxs, locals, tenant, reqs,
                   last_failed_open>>

\* __aexit__ has closed every session entered on the stack, whether it
\* raised or not
CleanupEnd ==
    /\ cleanup_pc = "exiting"
    /\ CleanupFinally([h \in DOMAIN sessions |->
                         IF sessions[h].stack = exit_stack
                         THEN [sessions[h] EXCEPT !.open = FALSE] ELSE sessions[h]])
    /\ UNCHANGED <<now, stacks, exit_stack_lock, connection_created_at, failed_connections,
                   lock_holder, global_lock, credcache, ctxs, locals, tenant, reqs, events,
                   last_failed_open>>

\* ----------------------------------------------------------- specifications
\* The manager while the application serves requests.
Next ==
    \/ \E k \in Tasks : GetQuickbooksMcp(k)
    \/ \E k \in Tasks : QBLockAcquired(k)
    \/ \E k \in Tasks, v \in Tokens \cup {None, Raised} : QBFetched(k, v)
    \/ \E k \in Tasks, o \in OpenOutcomes : QBOpened(k, o)
    \/ \E k \in Tasks : GetGlobalMcp(k)
    \/ \E k \in Tasks : GLockAcquired(k)
    \/ \E k \in Tasks, v \in SheetsCreds \cup {None, Raised} : GFetched(k, v)
    \/ \E k \in Tasks, o \in OpenOutcomes : GOpened(k, o)
    \/ \E t \in Tenants, ct \in ConnTypes, closed \in BOOLEAN, e \in Handles :
           HandleConnectionError(t, ct, closed, e)
    \/ \E k \in Tasks : InvalidateTenant(k)
    \/ \E k \in Tasks : InvLockAcquired(k)
    \/ \E k \in Tasks : ClearRequestMcpCache(k)
    \/ \E d \in AllDeltas : Tick(d)

Spec == Init /\ [][Next]_vars

\* --------------------------------------------------- the request handlers
\* The handlers that build agents: chat and _stream_agent_response_optimized
\* (chat.py) and generate_agent_reply (webhook_router.py).  The creation of
\* the agents and the run of the agent are taken by their outcome: they end
\* well, raise an Exception, or the task of the request is cancelled (the
\* client has gone: CancelledError or GeneratorExit, which "except Exception"
\* does not catch).  hpc is the await or yield the handler is suspended in,
\* built whether the request has built its agents, cleared the number of
\* calls of clear_request_mcp_cache the request has made.  The handler runs
\* in the context of its request, whose request cache is empty (the tasks of
\* asyncio.gather write into their own copies), so the call changes nothing
\* in the manager.  The except blocks call handle_connection_error when the
\* error names a server; that call is the action HandleConnectionError of
\* the manager and takes no part in the path of the handler.
Goto(r, p) == hpc' = [hpc EXCEPT ![r] = p]

\* clear_request_mcp_cache(), then the handler goes on to p
ClearAndGoto(r, p) ==
    /\ cleared' = [cleared EXCEPT ![r] = cleared[r] + 1]
    /\ Goto(r, p)

ReqStart(r, h) ==
    /\ hpc[r] = "idle"
    /\ handler' = [handler EXCEPT ![r] = h]
    /\ Goto(r, "create")
    /\ UNCHANGED <<now, mgr, ctxs, locals, tenant, built, cleared, events, cleanup_pc,
                   last_failed_open>>

\* await create_triage_agent / create_sales_agent: outside the try in chat,
\* inside it in the two others
CreateAgent(r, o) ==
    /\ hpc[r] = "create"
    /\ built' = [built EXCEPT ![r] = (o = "ok")]
    /\ IF o = "ok" THEN Goto(r, IF handler[r] = "stream" THEN "streaming" ELSE "run")
       ELSE IF o = "error" /\ handler[r] = "stream" THEN Goto(r, "err_yield")
       ELSE Goto(r, "done")
    /\ UNCHANGED <<now, mgr, ctxs, locals, tenant, handler, cleared, events, cleanup_pc,
                   last_failed_open>>

\* await Runner.run: chat goes on to its commit after the run or after its
\* except block; generate_agent_reply returns the reply or the fallback
RunAgent(r, o) ==
    /\ hpc[r] = "run"
    /\ IF handler[r] = "chat" /\ o # "cancelled" THEN Goto(r, "commit") ELSE Goto(r, "done")
    /\ UNCHANGED <<now, mgr, ctxs, locals, tenant, handler, built, cleared, events,
                   cleanup_pc, last_failed_open>>

\* chat: await db.commit(), then clear_request_mcp_cache (line 234)
ChatCommit(r, o) ==
    /\ hpc[r] = "commit"
    /\ IF o = "ok" THEN ClearAndGoto(r, "done") ELSE Goto(r, "done") /\ UNCHANGED cleared
    /\ UNCHANGED <<now, mgr, ctxs, locals, tenant, handler, built, events, cleanup_pc,
                   last_failed_open>>

\* stream: async for event in stream.stream_events(), with its yields
Stream(r, o) ==
    /\ hpc[r] = "streaming"
    /\ Goto(r, IF o = "ok" THEN "final_commit"
               ELSE IF o = "error" THEN "inner_yield" ELSE "done")
    /\ UNCHANGED <<now, mgr, ctxs, locals, tenant, handler, built, cleared, events,
                   cleanup_pc, last_failed_open>>

\* stream, except Exception as stream_error: the yield of the error message,
\* then the commit of the failed message and clear_request_mcp_cache (line
\* 426); an Exception raised here is caught by the outer except
InnerYield(r, o) ==
    /\ hpc[r] = "inner_yield"
    /\ Goto(r, IF o = "ok" THEN "inner_commit"
               ELSE IF o = "error" THEN "err_yield" ELSE "done")
    /\ UNCHANGED <<now, mgr, ctxs, locals, tenant, handler, built, cleared, events,
                   cleanup_pc, last_failed_open>>

InnerCommit(r, o) ==
    /\ hpc[r] = "inner_commit"
    /\ IF o = "ok" THEN ClearAndGoto(r, "final_commit")
       ELSE Goto(r, IF o = "error" THEN "err_yield" ELSE "done") /\ UNCHANGED cleared
    /\ UNCHANGED <<now, mgr, ctxs, locals, tenant, handler, built, events, cleanup_pc,
                   last_failed_open>>

\* stream, the outer except Exception: the yield of the error message, then
\* the commit of the failed message, clear_request_mcp_cache (line 502), the
\* last chunk and raise
ErrYield(r, o) ==
    /\ hpc[r] = "err_yield"
    /\ Goto(r, IF o = "ok" THEN "err_commit" ELSE "done")
    /\ UNCHANGED <<now, mgr, ctxs, locals, tenant, handler, built, cleared, events,
                   cleanup_pc, last_failed_open>>

ErrCommit(r, o) ==
    /\ hpc[r] = "err_commit"
    /\ IF o = "ok" THEN ClearAndGoto(r, "done") ELSE Goto(r, "done") /\ UNCHANGED cleared
    /\ UNCHANGED <<now, mgr, ctxs, locals, tenant, handler, built, events, cleanup_pc,
                   last_failed_open>>

\* stream, after the try: the commit of the final message, then
\* clear_request_mcp_cache (line 529) and the last chunk
FinalCommit(r, o) ==
    /\ hpc[r] = "final_commit"
    /\ IF o = "ok" THEN ClearAndGoto(r, "done") ELSE Goto(r, "done") /\ UNCHANGED cleared
    /\ UNCHANGED <<now, mgr, ctxs, locals, tenant, handler, built, events, cleanup_pc,
                   last_failed_open>>

NextRequests ==
    \/ \E r \in Requests, h \in Handlers : ReqStart(r, h)
    \/ \E r \in Requests, o \in Outcomes : CreateAgent(r, o)
    \/ \E r \in Requests, o \in Outcomes : RunAgent(r, o)
    \/ \E r \in Requests, o \in Outcomes : ChatCommit(r, o)
    \/ \E r \in Requests, o \in Outcomes : Stream(r, o)
    \/ \E r \in Requests, o \in Outcomes : InnerYield(r, o)
    \/ \E r \in Requests, o \in Outcomes : InnerCommit(r, o)
    \/ \E r \in Requests, o \in Outcomes : ErrYield(r, o)
    \/ \E r \in Requests, o \in Outcomes : ErrCommit(r, o)
    \/ \E r \in Requests, o \in Outcomes : FinalCommit(r, o)

SpecRequests == Init /\ [][NextRequests]_vars

\* The loop runs every task that is ready: a task whose lock has been
\* released to it goes on, a credential lookup returns or raises, and an
\* open ends, at the latest by the timeout of asyncio.wait_for.
Fairness ==
    \A k \in Tasks :
        /\ WF_vars(QBLockAcquired(k))
        /\ WF_vars(\E v \in Tokens \cup {None, Raised} : QBFetched(k, v))
        /\ WF_vars(\E o \in OpenOutcomes : QBOpened(k, o))
        /\ WF_vars(GLockAcquired(k))
        /\ WF_vars(\E v \in SheetsCreds \cup {None, Raised} : GFetched(k, v))
        /\ WF_vars(\E o \in OpenOutcomes : GOpened(k, o))
        /\ WF_vars(InvLockAcquired(k))

SpecLive == Spec /\ Fairness

\* The manager from the moment a first request of tenant t1 has opened and
\* registered the QuickBooks handle 1 with token 1 at time 0 (the state that
\* GetQuickbooksMcp(1), QBFetched(1, 1), QBOpened(1, "ok") reach from Init),
\* with MaxEvents further events.
InitRegistered ==
    /\ now = 0
    /\ exit_stack = 1 /\ stacks = 1 /\ exit_stack_lock = None
    /\ tenant_connections =
           [t \in Tenants |-> [c \in ConnTypes |->
               IF t = "t1" /\ c = "quickbooks" THEN 1 ELSE None]]
    /\ tenant_tokens = [t \in Tenants |-> IF t = "t1" THEN 1 ELSE None]
    /\ connection_created_at =
           [t \in Tenants |-> [c \in ConnTypes |->
               IF t = "t1" /\ c = "quickbooks" THEN 0 ELSE Absent]]
    /\ failed_connections = [t \in Tenants |-> [c \in ConnTypes |-> Absent]]
    /\ locks = [t \in Tenants |-> IF t = "t1" THEN 1 ELSE None]
    /\ lock_holder = [l \in LockIds |-> None]
    /\ global_lock = None
    /\ quickbooks_creds_cache = [t \in Tenants |-> IF t = "t1" THEN 1 ELSE Absent]
    /\ sheets_creds_cache = [t \in Tenants |-> Absent]
    /\ creds_cache_timestamps =
           [t \in Tenants |-> [c \in CredTypes |->
               IF t = "t1" /\ c = "quickbooks" THEN 0 ELSE Absent]]
    /\ request_global_mcp = [k \in Tasks |-> 0]
    /\ dicts = [d \in DictIds |-> EmptyDict]
    /\ pc = [k \in Tasks |-> "idle"]
    /\ \E t \in Tenants : tenant = [k \in Tasks |-> IF k = 3 THEN t ELSE "t1"]
    /\ op = [k \in Tasks |-> IF k = 1 THEN "quickbooks" ELSE "none"]
    /\ calls = [k \in Tasks |-> IF k = 1 THEN 1 ELSE 0]
    /\ lock = [k \in Tasks |-> None]
    /\ creds = [k \in Tasks |-> IF k = 1 THEN 1 ELSE None]
    /\ stack_ref = [k \in Tasks |-> None]
    /\ ret = [k \in Tasks |-> IF k = 1 THEN 1 ELSE NoRet]
    /\ ret_at = [k \in Tasks |-> IF k = 1 THEN 0 ELSE Absent]
    /\ opened = [k \in Tasks |-> k = 1]
    /\ sessions = <<[NewSession(1, "quickbooks") EXCEPT !.stack = 1]>>
    /\ events = 0
    /\ cleanup_pc = "idle"
    /\ last_failed_open = [t \in Tenants |-> [c \in ConnTypes |-> Absent]]
    /\ handler = [r \in Requests |-> "none"]
    /\ hpc = [r \in Requests |-> "idle"]
    /\ built = [r \in Requests |-> FALSE]
    /\ cleared = [r \in Requests |-> 0]

SpecRegistered == InitRegistered /\ [][Next]_vars

\* The manager up to and through the shutdown of the application.
NextShutdown == Next \/ CleanupBegin \/ CleanupEnd

SpecShutdown == Init /\ [][NextShutdown]_vars

\* ------------------------------------------------------- steps, by their kind
\* the step is one in which a call of task k returns
Returns(k) == (calls'[k] # calls[k] \/ pc[k] # "idle") /\ pc'[k] = "idle"

\* the step is a call of handle_connection_error: an event that is no call of
\* a task, no move of the clock and not the shutdown
Reports ==
    /\ events' # events
    /\ calls' = calls
    /\ now' = now
    /\ cleanup_pc' = cleanup_pc

\* ================================================================ properties
\* ---- C1
\* C1: an open for (t, i) is started only when no open for (t, i) has failed
\* in the last 30 seconds (a failure forgotten by handle_connection_error or
\* invalidate_tenant does not count): within the window the acquire returns
\* None without another open.
C1_Backoff ==
    [][\A k \in Tasks :
         /\ (pc[k] # "qb_open" /\ pc'[k] = "qb_open") =>
                \/ last_failed_open[tenant[k]]["quickbooks"] = Absent
                \/ now - last_failed_open[tenant[k]]["quickbooks"] > FailedConnectionTtl
         /\ (pc[k] # "g_open" /\ pc'[k] = "g_open") =>
                \/ last_failed_open[tenant[k]]["global"] = Absent
                \/ now - last_failed_open[tenant[k]]["global"] > FailedConnectionTtl]_vars

C3_RequestSharing ==
    \A k1, k2 \in Tasks : \A t \in Tenants :
        (/\ RequestOf(k1) = RequestOf(k2)
         /\ RequestCache(k1)[t] # None
         /\ RequestCache(k2)[t] # None)
        => RequestCache(k1)[t] = RequestCache(k2)[t]

C5_GracefulDegradation ==
    [][\A k \in Tasks :
         (pc[k] \in OpenPcs /\ pc'[k] = "idle" /\ Len(sessions') = Len(sessions))
         => /\ ret'[k] = None
            /\ failed_connections'[tenant[k]][op[k]] = now]_vars

\* an acquire whose open failed has returned None and the failure is recorded
C5_Witness ==
    \E k \in Tasks :
        /\ op[k] \in ConnTypes /\ pc[k] = "idle" /\ opened[k]
        /\ ret[k] = None
        /\ failed_connections[tenant[k]][op[k]] = ret_at[k]

C7_Staleness ==
    /\ [](\A k \in Tasks :
            (op[k] = "quickbooks" /\ pc[k] = "idle" /\ ret[k] \in DOMAIN sessions)
            => ret_at[k] - sessions[ret[k]].at <= MaxConnectionAge)
    /\ [][\A h \in DOMAIN sessions :
            (sessions[h].removed_by = "no" /\ sessions'[h].removed_by = "stale")
            => /\ now - sessions[h].at > MaxConnectionAge
               /\ \E k \in Tasks :
                    /\ tenant[k] = sessions[h].tenant
                    /\ pc[k] # "qb_open" /\ pc'[k] = "qb_open"]_vars

\* a stale handle was removed and a new session was opened with the same token
C7_Witness ==
    \E h1, h2 \in DOMAIN sessions :
        /\ h1 < h2
        /\ sessions[h1].removed_by = "stale"
        /\ sessions[h2].kind = "quickbooks"
        /\ sessions[h2].tenant = sessions[h1].tenant
        /\ sessions[h2].token = sessions[h1].token

C9_TenantIsolation ==
    /\ \A k \in Tasks :
         (pc[k] \in LockWaitPcs /\ lock_holder[lock[k]] # None)
         => tenant[lock_holder[lock[k]]] = tenant[k]
    /\ \A k \in Tasks :
         pc[k] \in OpenPcs
         => /\ lock_holder[lock[k]] = k
            /\ \A t \in Tenants : t # tenant[k] => locks[t] # lock[k]
    /\ global_lock = None
    /\ exit_stack_lock = None

\* acquires of two tenants are suspended in their opens at the same time
C9_Witness ==
    \E k1, k2 \in Tasks :
        /\ tenant[k1] # tenant[k2]
        /\ pc[k1] \in OpenPcs
        /\ pc[k2] \in OpenPcs

\* ---- C10
\* C10: the default dict of _request_global_mcp stays empty, the request
\* cache of a context holds only handles opened in its own request, for the
\* tenant of the entry, and a global acquire that returns a handle without
\* opening returns a handle of its own request.
C10_RequestIsolation ==
    /\ dicts[0] = EmptyDict
    /\ \A k \in Tasks : \A t \in Tenants :
         RequestCache(k)[t] # None
         => /\ RequestOf(sessions[RequestCache(k)[t]].task) = RequestOf(k)
            /\ sessions[RequestCache(k)[t]].tenant = t
    /\ \A k \in Tasks :
         (op[k] = "global" /\ pc[k] = "idle" /\ ret[k] \in DOMAIN sessions /\ ~opened[k])
         => RequestOf(sessions[ret[k]].task) = RequestOf(k)

\* the first request holds a handle in its cache, never cleared, and a later
\* global acquire of the second request for the same tenant got another handle
C10_Witness ==
    \E k \in Tasks :
        /\ RequestOf(k) = "A"
        /\ tenant[3] = tenant[k]
        /\ RequestCache(k)[tenant[k]] # None
        /\ op[3] = "global" /\ pc[3] = "idle"
        /\ ret[3] \in DOMAIN sessions
        /\ RequestCache(k)[tenant[k]] < ret[3]

\* ---- C11
\* C11: when handle_connection_error removes a registered handle, the
\* registry holds no handle and no creation time for its tenant and
\* integration after the call, and no QuickBooks acquire that returns
\* afterwards returns a handle that was removed: it returns the registered
\* handle or one it has just opened.
C11_InvalidationOnError ==
    [][/\ \A h \in DOMAIN sessions :
            (sessions[h].removed_by = "no" /\ sessions'[h].removed_by = "error")
            => /\ tenant_connections'[sessions[h].tenant][sessions[h].kind] = None
               /\ connection_created_at'[sessions[h].tenant][sessions[h].kind] = Absent
       /\ \A k \in Tasks :
            (Returns(k) /\ op'[k] = "quickbooks" /\ ret'[k] \in DOMAIN sessions')
            => sessions'[ret'[k]].removed_by = "no"]_vars

\* a handle was removed by handle_connection_error and a later acquire with
\* the same token has opened and returned another one
C11_Witness ==
    \E k \in Tasks : \E h \in DOMAIN sessions :
        /\ sessions[h].removed_by = "error"
        /\ sessions[h].tenant = tenant[k]
        /\ op[k] = "quickbooks" /\ pc[k] = "idle" /\ opened[k]
        /\ ret[k] \in DOMAIN sessions
        /\ ret[k] > h
        /\ sessions[ret[k]].token = sessions[h].token

\* ---- C12
\* C12 as stated, for the no-credentials answer: no QuickBooks lookup
\* consults the store less than 5 minutes after a lookup for the same tenant
\* got None from it.
C12_CredsCacheTtl ==
    [][\A k, j \in Tasks :
         ~(/\ pc[k] # "qb_fetch" /\ pc'[k] = "qb_fetch"
           /\ tenant[j] = tenant[k]
           /\ op[j] = "quickbooks" /\ pc[j] = "idle"
           /\ creds[j] = None /\ ret[j] = None
           /\ now - ret_at[j] < CredsCacheTtl)]_vars

\* C12 amended: a lookup consults the store only when the cache has no entry
\* for the tenant or the entry is more than 5 minutes old; what the store
\* returns is cached with the time of the lookup, except that None is never
\* cached as QuickBooks credentials (it is cached as Google Sheets
\* credentials); every cached entry has a timestamp.
C12_CredsCache ==
    /\ [](\A t \in Tenants :
            /\ quickbooks_creds_cache[t] # None
            /\ quickbooks_creds_cache[t] # Absent
                 => creds_cache_timestamps[t]["quickbooks"] # Absent
            /\ sheets_creds_cache[t] # Absent
                 => creds_cache_timestamps[t]["sheets"] # Absent)
    /\ [][\A k \in Tasks :
            /\ (pc[k] # "qb_fetch" /\ pc'[k] = "qb_fetch")
               => \/ quickbooks_creds_cache[tenant[k]] = Absent
                  \/ now - creds_cache_timestamps[tenant[k]]["quickbooks"] > CredsCacheTtl
            /\ (pc[k] # "g_fetch" /\ pc'[k] = "g_fetch")
               => \/ sheets_creds_cache[tenant[k]] = Absent
                  \/ now - creds_cache_timestamps[tenant[k]]["sheets"] > CredsCacheTtl
            /\ (pc[k] = "qb_fetch" /\ pc'[k] # "qb_fetch" /\ creds'[k] # None)
               => /\ quickbooks_creds_cache'[tenant[k]] = creds'[k]
                  /\ creds_cache_timestamps'[tenant[k]]["quickbooks"] = now
            /\ (pc[k] = "qb_fetch" /\ pc'[k] # "qb_fetch" /\ creds'[k] = None)
               => quickbooks_creds_cache' = quickbooks_creds_cache
            /\ (pc[k] = "g_fetch" /\ pc'[k] # "g_fetch"
                /\ ~(pc'[k] = "idle" /\ ret'[k] = Raised))
               => /\ sheets_creds_cache'[tenant[k]] = creds'[k]
                  /\ creds_cache_timestamps'[tenant[k]]["sheets"] = now]_vars

\* a QuickBooks acquire has used credentials cached exactly 5 minutes before,
\* without consulting the store
C12_Witness ==
    \E k \in Tasks :
        /\ op[k] = "quickbooks" /\ pc[k] = "idle" /\ ~opened[k]
        /\ ret[k] \in DOMAIN sessions
        /\ creds[k] = quickbooks_creds_cache[tenant[k]]
        /\ ret_at[k] - creds_cache_timestamps[tenant[k]]["quickbooks"] = CredsCacheTtl

\* ---- C13
\* C13: a request that has built its agents and has ended has called
\* clear_request_mcp_cache.
C13_ClearedAtEnd ==
    \A r \in Requests : (hpc[r] = "done" /\ built[r]) => cleared[r] >= 1

\* ---- C14
\* C14: after cleanup has returned every session is closed and every registry
\* of the manager is empty: the handles, the tokens, the creation times, the
\* failure records, the credential caches and their times.
C14_Shutdown ==
    cleanup_pc = "done" =>
        /\ \A h \in DOMAIN sessions : ~sessions[h].open
        /\ \A t \in Tenants :
              /\ tenant_tokens[t] = None
              /\ quickbooks_creds_cache[t] = Absent
              /\ sheets_creds_cache[t] = Absent
              /\ \A c \in CredTypes : creds_cache_timestamps[t][c] = Absent
              /\ \A c \in ConnTypes :
                    /\ tenant_connections[t][c] = None
                    /\ connection_created_at[t][c] = Absent
                    /\ failed_connections[t][c] = Absent

\* ---- C15
\* C15: at most one AsyncExitStack is ever created while the application
\* serves requests; every acquire that has passed _ensure_exit_stack and
\* every session opened hold that one stack; once the stack exists a call of
\* _ensure_exit_stack changes nothing.
C15_SingleScope ==
    /\ [](/\ stacks <= 1
          /\ exit_stack = (IF stacks = 0 THEN None ELSE stacks)
          /\ \A k \in Tasks : pc[k] \in OpenPcs => stack_ref[k] = exit_stack /\ stacks = 1
          /\ \A h \in DOMAIN sessions : sessions[h].stack = exit_stack /\ stacks = 1)
    /\ [][exit_stack # None => exit_stack' = exit_stack /\ stacks' = stacks]_vars

\* two acquires have each opened a session, and both sessions are on the one
\* stack
C15_Witness ==
    /\ stacks = 1
    /\ \E k1, k2 \in Tasks :
          /\ k1 # k2
          /\ opened[k1] /\ opened[k2]
          /\ ret[k1] \in DOMAIN sessions /\ ret[k2] \in DOMAIN sessions
          /\ ret[k1] # ret[k2]
          /\ sessions[ret[k1]].stack = exit_stack
          /\ sessions[ret[k2]].stack = exit_stack

\* ---- C16
\* C16: a step that removes a handle from the registry leaves its session
\* as open as it was, and a session goes from open to closed only in the
\* step in which cleanup's __aexit__ ends.
C16_InvalidationNeverCloses ==
    [][\A h \in DOMAIN sessions :
          /\ sessions'[h].removed_by # sessions[h].removed_by
                /\ sessions'[h].removed_by \in {"stale", "token", "error", "tenant", "replaced"}
             => sessions'[h].open = sessions[h].open
          /\ sessions[h].open /\ ~sessions'[h].open
             => cleanup_pc = "exiting" /\ cleanup_pc' = "done"]_vars

\* a handle has been removed from the registry before the shutdown; its
\* session is open and a task still holds it
C16_Witness ==
    \E h \in DOMAIN sessions, k \in Tasks :
        /\ sessions[h].removed_by \in {"stale", "token", "error", "tenant"}
        /\ sessions[h].open
        /\ ret[k] = h
        /\ cleanup_pc = "idle"

\* ---- C17
\* C17: every call of get_quickbooks_mcp or get_global_mcp that has ended has
\* returned a handle or None; no exception has propagated to the caller.
C17_OnlyTwoOutcomes ==
    \A k \in Tasks :
        (pc[k] = "idle" /\ op[k] \in {"quickbooks", "global"}) => ret[k] # Raised

\* ---- C18
\* C18 as stated: the headers of every open hold jsonrpc, a Content-Type and
\* x-tenant-id, the id of the tenant of the open.
C18_TenantHeader ==
    \A h \in DOMAIN sessions :
        /\ {"jsonrpc", "Content-Type", "x-tenant-id"} \subseteq DOMAIN sessions[h].headers
        /\ sessions[h].headers["x-tenant-id"] = Str(sessions[h].tenant)

\* C18: the headers of every open hold jsonrpc 2.0 and the Content-Type
\* that accepts JSON and event streams; those of the global server hold
\* x-tenant-id, the id of the tenant of the open; those of QuickBooks hold no
\* x-tenant-id but the access token and the realm id of the credentials the
\* open was made with.
C18_Headers ==
    \A h \in DOMAIN sessions :
        LET H == sessions[h].headers IN
        /\ {"jsonrpc", "Content-Type"} \subseteq DOMAIN H
        /\ H["jsonrpc"] = "2.0"
        /\ H["Content-Type"] = "application/json, text/event-stream"
        /\ sessions[h].kind = "global" =>
              /\ "x-tenant-id" \in DOMAIN H
              /\ H["x-tenant-id"] = Str(sessions[h].tenant)
        /\ sessions[h].kind = "quickbooks" =>
              /\ "x-tenant-id" \notin DOMAIN H
              /\ {"Authorization", "x-quickbooks-realm-id"} \subseteq DOMAIN H
              /\ H["Authorization"] = <<"Bearer", sessions[h].token>>
              /\ H["x-quickbooks-realm-id"] = <<"realm", sessions[h].token>>

\* an open of each kind has been made
C18_Witness ==
    \E h1, h2 \in DOMAIN sessions :
        /\ sessions[h1].kind = "quickbooks"
        /\ sessions[h2].kind = "global"
        /\ "x-user-refresh-token" \in DOMAIN sessions[h2].headers

\* ---- C19
\* the registry, the creation times or the failure records of tenant t change
RegistryChanged(t) ==
    \/ tenant_connections'[t] # tenant_connections[t]
    \/ connection_created_at'[t] # connection_created_at[t]
    \/ failed_connections'[t] # failed_connections[t]

\* the step is a step of a call of a task of tenant t, and no other task is
\* inside the lock of t
ByLockHolder(t) ==
    \E k \in Tasks :
        /\ tenant[k] = t
        /\ calls'[k] # calls[k] \/ pc'[k] # pc[k]
        /\ InLock(t) \subseteq {k}

C20_FailureTrackerKept ==
    [][Reports => failed_connections' = failed_connections]_vars

\* C20: a call of handle_connection_error for a pair (t, i) that has a
\* handle, a creation time or a failure record leaves (t, i) without any of
\* them, so that no backoff window of (t, i) is active after it, and leaves
\* the entries of every other pair as they were.
C20_FailureTrackerCleared ==
    [][Reports =>
          \E t \in Tenants, i \in ConnTypes :
              /\ \/ tenant_connections[t][i] # None
                 \/ connection_created_at[t][i] # Absent
                 \/ failed_connections[t][i] # Absent
              /\ tenant_connections'[t][i] = None
              /\ connection_created_at'[t][i] = Absent
              /\ failed_connections'[t][i] = Absent
              /\ \A t2 \in Tenants, i2 \in ConnTypes :
                    <<t2, i2>> # <<t, i>> =>
                       /\ tenant_connections'[t2][i2] = tenant_connections[t2][i2]
                       /\ connection_created_at'[t2][i2] = connection_created_at[t2][i2]
                       /\ failed_connections'[t2][i2] = failed_connections[t2][i2]]_vars

\* the only call made so far is a global acquire whose open has just failed,
\* and the failure record it wrote is gone: handle_connection_error has
\* ended the backoff window
C20_Witness ==
    \E k \in Tasks :
        /\ op[k] = "global" /\ pc[k] = "idle" /\ opened[k] /\ ret[k] = None
        /\ calls[k] = 1
        /\ \A j \in Tasks \ {k} : calls[j] = 0
        /\ now - ret_at[k] < FailedConnectionTtl
        /\ failed_connections[tenant[k]]["global"] = Absent

\* ---- C21
\* the step is the return of an acquire of kind i by task k with the handle
\* of the session it has just opened
ReturnsNewOpen(k, i) ==
    /\ Returns(k)
    /\ op'[k] = i
    /\ opened'[k]
    /\ ret'[k] \in DOMAIN sessions'
    /\ ret'[k] \notin DOMAIN sessions

C22_CancellationIsFailure ==
    [][\A k \in Tasks :
          (pc[k] \in OpenPcs /\ pc'[k] = "idle" /\ Len(sessions') = Len(sessions)) =>
             /\ ret'[k] = None
             /\ failed_connections'[tenant[k]][op[k]] = now'
             /\ lock'[k] = None
             /\ \A l \in LockIds : lock_holder'[l] # k
             /\ tenant_connections'[tenant[k]][op[k]] = None
             /\ request_global_mcp' = request_global_mcp
             /\ dicts' = dicts]_vars

\* an open of each kind has been cut short: both calls have returned None,
\* the failures are recorded and the lock is free
C22_Witness ==
    \E k1, k2 \in Tasks :
        /\ tenant[k1] = tenant[k2]
        /\ op[k1] = "quickbooks" /\ op[k2] = "global"
        /\ \A k \in {k1, k2} :
              /\ pc[k] = "idle" /\ opened[k] /\ ret[k] = None
              /\ failed_connections[tenant[k]][op[k]] = ret_at[k]
              /\ lock[k] = None
        /\ \A l \in LockIds : lock_holder[l] = None

\* ---- C23
\* C23: a tenant's lock, once made, is never removed or replaced, and two
\* tasks of one tenant are never inside "async with lock" at once.
C23_OneLockPerTenant ==
    /\ [](\A k1, k2 \in Tasks :
             (k1 # k2 /\ tenant[k1] = tenant[k2])
             => ~(pc[k1] \in InLockPcs /\ pc[k2] \in InLockPcs))
    /\ [][\A t \in Tenants : locks[t] # None => locks'[t] = locks[t]]_vars

\* ---- C24
\* C24: every call that has begun returns, and a task that is not inside a
\* call holds no lock; _global_lock and _exit_stack_lock are never held
\* across a suspension.
C24_Termination ==
    /\ \A k \in Tasks : (pc[k] # "idle") ~> (pc[k] = "idle")
    /\ [](\A k \in Tasks : pc[k] = "idle" => \A l \in LockIds : lock_holder[l] # k)
    /\ [](global_lock = None /\ exit_stack_lock = None)

\* a task has returned and released the lock for which another task of its
\* tenant waits
C24_Witness ==
    \E k1, k2 \in Tasks :
        /\ tenant[k1] = tenant[k2]
        /\ pc[k1] = "idle" /\ ret[k1] # NoRet
        /\ pc[k2] \in LockWaitPcs
        /\ lock_holder[lock[k2]] = None

C26_OnlyFailedHandle ==
    [][\A h \in DOMAIN sessions :
          (sessions[h].removed_by = "no" /\ sessions'[h].removed_by = "error")
          => sessions'[h].raised]_vars

\* ---- C27
\* C27: whenever a QuickBooks handle is registered for a tenant, a creation
\* time of (t, quickbooks) and a token of t are recorded, the shutdown
\* included.
C27_RegistryConsistency ==
    \A t \in Tenants :
        tenant_connections[t]["quickbooks"] # None
        => /\ connection_created_at[t]["quickbooks"] # Absent
           /\ tenant_tokens[t] # None

\* a handle is registered with its creation time and its token after an
\* earlier handle of the tenant was removed by handle_connection_error,
\* invalidate_tenant or cleanup
C27_Witness ==
    \E t \in Tenants, h \in DOMAIN sessions :
        /\ tenant_connections[t]["quickbooks"] # None
        /\ connection_created_at[t]["quickbooks"] # Absent
        /\ tenant_tokens[t] # None
        /\ sessions[h].tenant = t
        /\ sessions[h].kind = "quickbooks"
        /\ sessions[h].removed_by \in {"error", "tenant", "cleanup"}

\* ---- C28
\* C28: while the application serves, at most one task of a tenant is
\* suspended in an open, of QuickBooks or of the global server, and that
\* task holds the lock of the tenant.
C28_OneOpenInFlight ==
    \A t \in Tenants :
        /\ Cardinality({k \in Tasks : tenant[k] = t /\ pc[k] \in OpenPcs}) <= 1
        /\ \A k \in Tasks :
              (tenant[k] = t /\ pc[k] \in OpenPcs)
              => /\ locks[t] # None
                 /\ lock[k] = locks[t]
                 /\ lock_holder[locks[t]] = k

\* an open of one integration is in progress for a tenant while an acquire
\* of the other integration waits for the lock of the tenant
C28_Witness ==
    \E k1, k2 \in Tasks :
        /\ tenant[k1] = tenant[k2]
        /\ \/ pc[k1] = "qb_open" /\ pc[k2] = "g_lockwait"
           \/ pc[k1] = "g_open" /\ pc[k2] = "qb_lockwait"

\* ---- C29
\* what the manager keeps for tenant t: the registered handles, their
\* creation times, the recorded token, the failure records and the cached
\* credentials with their times
TenantEntries(t) ==
    <<tenant_connections[t], connection_created_at[t], tenant_tokens[t],
      failed_connections[t], quickbooks_creds_cache[t], sheets_creds_cache[t],
      creds_cache_timestamps[t]>>

\* the step is a step of a call of task k
StepOf(k) == pc'[k] # pc[k] \/ calls'[k] # calls[k]

\* the failure record of (t, ct) is in its backoff window
InBackoffWindow(t, ct) ==
    /\ failed_connections[t][ct] # Absent
    /\ now - failed_connections[t][ct] <= FailedConnectionTtl

\* C29: a step of a call for tenant A leaves the entries of every other
\* tenant as they were, and so does every step for all tenants but one (the
\* tenant of a reported error); an acquire of an integration returns None
\* without an open only when the failure record of that same integration is
\* in its backoff window (or, for QuickBooks, the tenant has no credentials).
C29_TenantFrame ==
    [][/\ \A k \in Tasks :
             StepOf(k) =>
                 \A B \in Tenants \ {tenant[k]} : TenantEntries(B)' = TenantEntries(B)
       /\ \E A \in Tenants :
             \A B \in Tenants \ {A} : TenantEntries(B)' = TenantEntries(B)
       /\ \A k \in Tasks :
             (Returns(k) /\ op'[k] = "global" /\ ret'[k] = None /\ ~opened'[k])
             => InBackoffWindow(tenant[k], "global")
       /\ \A k \in Tasks :
             (Returns(k) /\ op'[k] = "quickbooks" /\ ret'[k] = None /\ ~opened'[k])
             => \/ creds'[k] = None
                \/ InBackoffWindow(tenant[k], "quickbooks")
      ]_vars

\* a global acquire has just returned a new handle to a tenant whose
\* QuickBooks failure record is in its backoff window, while another tenant
\* has a registered handle
C29_Witness ==
    \E k \in Tasks, B \in Tenants :
        /\ B # tenant[k]
        /\ tenant_connections[B]["quickbooks"] # None
        /\ InBackoffWindow(tenant[k], "quickbooks")
        /\ failed_connections[tenant[k]]["global"] = Absent
        /\ pc[k] = "idle" /\ op[k] = "global" /\ opened[k]
        /\ ret[k] \in DOMAIN sessions
        /\ ret_at[k] = now

\* ---- C30
\* the sessions the exit scope holds open, and those of them opened for
\* tenant t
OpenSessions == {h \in DOMAIN sessions : sessions[h].open /\ sessions[h].stack = exit_stack}

OpenSessionsOf(t) == {h \in OpenSessions : sessions[h].tenant = t}

\* a step in which an open has succeeded
OpenSucceeds == \E k \in Tasks, i \in ConnTypes : ReturnsNewOpen(k, i)

\* the sessions only accumulate: every step in which an open succeeds adds
\* one session to those the exit scope holds open, and no other step changes
\* them
SessionsAccumulate ==
    /\ OpenSessions' = OpenSessions \/ OpenSucceeds
    /\ OpenSucceeds =>
           /\ OpenSessions \subseteq OpenSessions'
           /\ Cardinality(OpenSessions') = Cardinality(OpenSessions) + 1

\* the step ends a call of get_global_mcp by task k that found no handle of
\* its tenant in the request-scoped cache
EndsUncachedGlobal(k) ==
    /\ Returns(k)
    /\ op'[k] = "global"
    /\ RequestCache(k)[tenant[k]] = None

\* C30 as stated: the sessions only accumulate, and every call of
\* get_global_mcp whose request-scoped cache is empty adds one more open
\* session for its tenant.
C30_EveryRequestAdds ==
    [][/\ SessionsAccumulate
       /\ \A k \in Tasks :
             EndsUncachedGlobal(k)
             => Cardinality(OpenSessionsOf(tenant[k])') =
                    Cardinality(OpenSessionsOf(tenant[k])) + 1]_vars

\* C30: while the application serves, the sessions only accumulate; a call
\* of get_global_mcp whose request-scoped cache is empty adds one more open
\* session for its tenant when it returns a handle, and none when it returns
\* None or raises (in the backoff window, or when the open or the look-up of
\* the credentials fails).
C30_SessionsAccumulate ==
    [][/\ SessionsAccumulate
       /\ \A k \in Tasks :
             EndsUncachedGlobal(k)
             => IF ret'[k] \in DOMAIN sessions'
                THEN /\ ret'[k] \notin DOMAIN sessions
                     /\ ret'[k] \in OpenSessionsOf(tenant[k])'
                     /\ sessions'[ret'[k]].kind = "global"
                     /\ Cardinality(OpenSessionsOf(tenant[k])') =
                            Cardinality(OpenSessionsOf(tenant[k])) + 1
                ELSE /\ ret'[k] \in {None, Raised}
                     /\ OpenSessionsOf(tenant[k])' = OpenSessionsOf(tenant[k])]_vars

\* one tenant has more open sessions of the global server than there are
\* integrations, each returned to a call that found its cache empty
C30_Witness ==
    \E t \in Tenants :
        /\ Cardinality({h \in OpenSessionsOf(t) : sessions[h].kind = "global"})
               > Cardinality(ConnTypes)
        /\ \A k \in Tasks : op[k] = "global" /\ opened[k] /\ ret[k] \in OpenSessionsOf(t)

====
